---- MODULE Spec2Model ----
(***************************************************************************)
(* Attendance tracker (src/app.py): the repository functions, the          *)
(* get_db_cursor context manager they all run in, the two tables they      *)
(* create, and the Streamlit pages that call them.                         *)
(*                                                                         *)
(* A Python string is a TLA+ string; text typed into a form is a sequence  *)
(* of characters, so that strip() is computed character by character.      *)
(* A DataFrame is the set of its rows (no claim is about row order); an    *)
(* attendance row keeps its SERIAL id, which keeps equal-looking rows      *)
(* apart. The columns time and created_at are written by the code and read *)
(* by no property below, and are left out of the rows.                     *)
(***************************************************************************)
EXTENDS Integers, Sequences, FiniteSets, TLC

VARIABLES
    tables,       \* the tables that exist in the store (committed)
    students,     \* committed rows of students
    attendance,   \* committed rows of attendance
    seq,          \* next value of attendance.id (SERIAL)
    today,        \* date.today()
    pc,           \* per user: "idle" | "exit" (inside the with body, statement run) | "done"
    call,         \* per user: the repository call in progress or last completed
    cur,          \* per user: the cursor / open transaction of the call
    log,          \* per user: what the call did to its connection, in order
    outcome,      \* per user: what became of the call's transaction
    ret,          \* per user: what the call returned (or raised)
    marks,        \* per student id: successful marks since it was last registered
                  \* (a history variable, kept for the properties; the code has none)
    run,          \* per user: the script run in progress: its page and how far it got
    students_df   \* per user: the students_df the page works from

vars == <<tables, students, attendance, seq, today, pc, call, cur, log, outcome, ret, marks,
          run, students_df>>

\* what only the pages change
ui == <<run, students_df>>

----------------------------------------------------------------------------
(* Bounds and input sets *)

MaxSerial == 2
MaxQuerySerial == 3
MaxAppSerial == 1
MaxDay == 2

Users == {"u1", "u2"}
Callers == {"u1"}

ArgIds == {"a", "b"}
\* <<name, department>> of a registration
Registrations == {<<"n", "Computer Science">>, <<"m", "Other">>}
MarkNames == {"n"}
Statuses == {"Present", "Absent", "Late"}
ArgStatuses == {"Present", "Absent", "Excused"}

None == "<None>"
NoDate == 0
All == "All"

Dates == 1..MaxDay
DateFilters == {NoDate} \cup Dates
StudentFilters == {None, All, "", "a"}
StatusFilters == {None, All, "Present"}

\* text typed into the registration form, character by character
TypedIds == {<<>>, <<" ">>, <<"a", " ">>}
TypedNames == {<<"n">>, <<" ", "m">>}
FormDepartments == {"Computer Science"}
FormStatuses == {"Present", "Absent"}

----------------------------------------------------------------------------
(* Python values *)

Whitespace == {" "}

RECURSIVE lstrip(_)
lstrip(t) == IF t # <<>> /\ Head(t) \in Whitespace THEN lstrip(Tail(t)) ELSE t

RECURSIVE rstrip(_)
rstrip(t) == IF t # <<>> /\ t[Len(t)] \in Whitespace
             THEN rstrip(SubSeq(t, 1, Len(t) - 1)) ELSE t

\* str.strip()
strip(t) == rstrip(lstrip(t))

\* the string a sequence of characters spells
RECURSIVE Str(_)
Str(t) == IF t = <<>> THEN "" ELSE Head(t) \o Str(Tail(t))

\* every id a call can carry
AllIds == ArgIds \cup {Str(strip(t)) : t \in TypedIds}

\* bool(x) of a string or None
Truthy(x) == x # None /\ x # ""

\* bool(x) of a datetime.date or None
TruthyDate(d) == d # NoDate

RetVal(v, msg, data) == [kind |-> "return", v |-> v, msg |-> msg, data |-> data]
Raised(e) == [kind |-> "raise", v |-> FALSE, msg |-> e, data |-> {}]
NoRet == [kind |-> "none", v |-> FALSE, msg |-> "", data |-> {}]

----------------------------------------------------------------------------
(* The store: two tables, a primary key, a foreign key with ON DELETE      *)
(* CASCADE. A statement either raises or leaves an uncommitted effect in   *)
(* its transaction; the effect reaches the tables at commit.               *)

AllTables == {"students", "attendance"}

NoEffect == [kind |-> "none"]
StmtOk(n, rows, eff) == [err |-> "", rowcount |-> n, rows |-> rows, pending |-> eff]
StmtRaise(e) == [err |-> e, rowcount |-> 0, rows |-> {}, pending |-> NoEffect]
NoCursor == [err |-> "", rowcount |-> 0, rows |-> {}, pending |-> NoEffect,
             exc |-> "", ret |-> NoRet]

\* the uncommitted effect user v's open transaction holds
PendingOf(v) == IF pc[v] = "exit" THEN cur[v].pending ELSE NoEffect

\* CREATE TABLE IF NOT EXISTS students ...; CREATE TABLE IF NOT EXISTS attendance ...
CreateTables == StmtOk(0, {}, [kind |-> "create_tables"])

PrimaryKeyFree(id) == ~ \E s \in students : s.id = id

\* INSERT INTO students (id, name, department): id TEXT PRIMARY KEY
InsertStudent(id, name, department) ==
    IF "students" \notin tables THEN StmtRaise("UndefinedTable")
    ELSE IF ~PrimaryKeyFree(id) THEN StmtRaise("UniqueViolation")
    ELSE StmtOk(1, {}, [kind |-> "insert_student",
                        row |-> [id |-> id, name |-> name, department |-> department]])

\* DELETE FROM students WHERE id = %s
DeleteStudent(id) ==
    IF "students" \notin tables THEN StmtRaise("UndefinedTable")
    ELSE StmtOk(Cardinality({s \in students : s.id = id}), {},
                [kind |-> "delete_student", id |-> id])

\* (mutant) student_id TEXT without REFERENCES students(id)
ForeignKeyUnchecked(student_id) == TRUE

ForeignKeyHolds(student_id) == \E s \in students : s.id = student_id

\* INSERT INTO attendance (...): id SERIAL, student_id REFERENCES students(id)
InsertAttendance(student_id, student_name, d, status) ==
    IF "attendance" \notin tables THEN StmtRaise("UndefinedTable")
    ELSE IF ~ForeignKeyHolds(student_id) THEN StmtRaise("ForeignKeyViolation")
    ELSE StmtOk(1, {}, [kind |-> "insert_attendance",
                        row |-> [id |-> seq, student_id |-> student_id,
                                 student_name |-> student_name, date |-> d,
                                 status |-> status]])

\* (mutant) REFERENCES students(id) without ON DELETE CASCADE
CascadeMissing(id) == {}

\* rows a DELETE of student id takes with it: ON DELETE CASCADE
Cascade(id) == {r \in attendance : r.student_id = id}

StudentsAfter(eff) ==
    CASE eff.kind = "insert_student" -> students \cup {eff.row}
      [] eff.kind = "delete_student" -> {s \in students : s.id # eff.id}
      [] OTHER -> students

\* (mutant) a mark replaces the student's row of the same date
AttendanceAfterUpsert(eff) ==
    CASE eff.kind = "insert_attendance" ->
              {r \in attendance : ~(r.student_id = eff.row.student_id
                                       /\ r.date = eff.row.date)} \cup {eff.row}
      [] eff.kind = "delete_student" -> attendance \ Cascade(eff.id)
      [] OTHER -> attendance

AttendanceAfter(eff) ==
    CASE eff.kind = "insert_attendance" -> attendance \cup {eff.row}
      [] eff.kind = "delete_student" -> attendance \ Cascade(eff.id)
      [] OTHER -> attendance

TablesAfter(eff) ==
    IF eff.kind = "create_tables" THEN tables \cup AllTables ELSE tables

\* A statement waits while another open transaction holds a conflicting row
\* lock: two writers of one students key, or a DELETE of a student against an
\* INSERT of a row that references it.
LockWait(u, eff) ==
    \E v \in Users \ {u} :
        LET p == PendingOf(v) IN
        \/ /\ eff.kind = "insert_student"
           /\ \/ p.kind = "insert_student" /\ p.row.id = eff.row.id
              \/ p.kind = "delete_student" /\ p.id = eff.row.id
        \/ /\ eff.kind = "delete_student"
           /\ \/ p.kind = "delete_student" /\ p.id = eff.id
              \/ p.kind = "insert_attendance" /\ p.row.student_id = eff.id
        \/ /\ eff.kind = "insert_attendance"
           /\ p.kind = "delete_student" /\ p.id = eff.row.student_id
        \/ /\ eff.kind = "create_tables"
           /\ p.kind = "create_tables"
           /\ tables # AllTables

----------------------------------------------------------------------------
(* get_connection and get_db_cursor *)

\* What can go wrong on the way into a call, whatever the data:
\*   "connect"    psycopg2.connect raises: get_connection returns None
\*   "cursor"     conn.cursor() raises
\*   "statement"  cursor.execute raises an error of the store or the network
Failures == {"none", "connect", "cursor", "statement"}
NoFailure == {"none"}

Exec(stmt, f) == IF f = "statement" THEN StmtRaise("OperationalError") ELSE stmt

\* a with body that lets the statement's exception out
Propagate(s, value) ==
    [err |-> s.err, rowcount |-> s.rowcount, rows |-> s.rows, pending |-> s.pending,
     exc |-> s.err, ret |-> IF s.err = "" THEN value ELSE NoRet]

\* what each function returns after its with block: cursor was None, or
\* get_db_cursor swallowed the body's exception
AfterWith(c) ==
    CASE c.op = "add_student" -> RetVal(FALSE, "Database connection failed", {})
      [] c.op = "delete_student" -> RetVal(FALSE, "", {})
      [] c.op = "save_attendance" -> RetVal(FALSE, "", {})
      [] c.op = "get_attendance_stats" -> RetVal(FALSE, None, <<>>)
      [] c.op = "get_student_report" -> RetVal(FALSE, "", <<>>)
      [] OTHER -> RetVal(FALSE, "", {})

\* get_db_cursor from get_connection() to the end of the caller's with body.
\* body is the caller's body run on the cursor: the statement's result, the
\* exception that leaves the body (exc) or the value the body returns (ret).
get_db_cursor_enter(u, c, f, body) ==
    /\ pc[u] \in {"idle", "done"}
    /\ call' = [call EXCEPT ![u] = c]
    /\ CASE f = "connect" ->
              \* yield None: the body is skipped, nothing to release
              /\ pc' = [pc EXCEPT ![u] = "done"]
              /\ cur' = [cur EXCEPT ![u] = NoCursor]
              /\ log' = [log EXCEPT ![u] = <<"st.error">>]
              /\ outcome' = [outcome EXCEPT ![u] = "none"]
              /\ ret' = [ret EXCEPT ![u] = AfterWith(c)]
         [] f = "cursor" ->
              \* except: rollback, st.error; finally: cursor.close() on the
              \* unbound name cursor raises, conn.close() is not reached
              /\ pc' = [pc EXCEPT ![u] = "done"]
              /\ cur' = [cur EXCEPT ![u] = NoCursor]
              /\ log' = [log EXCEPT ![u] = <<"connect", "conn.rollback", "st.error">>]
              /\ outcome' = [outcome EXCEPT ![u] = "rolledback"]
              /\ ret' = [ret EXCEPT ![u] = Raised("UnboundLocalError")]
         [] OTHER ->
              /\ ~LockWait(u, body.pending)
              /\ pc' = [pc EXCEPT ![u] = "exit"]
              /\ cur' = [cur EXCEPT ![u] = body]
              /\ log' = [log EXCEPT ![u] = <<"connect", "conn.cursor">>]
              /\ outcome' = [outcome EXCEPT ![u] = "open"]
              /\ ret' = [ret EXCEPT ![u] = NoRet]
    /\ UNCHANGED <<tables, students, attendance, today, marks>>

\* the transaction commits: the body ended without an exception, no
\* statement had failed in it (COMMIT of a failed transaction rolls it back)
\* and conn.commit() itself went through
Commits(c, commitOk) == c.exc = "" /\ c.err = "" /\ commitOk

\* the history variable marks: a mark counts when save_attendance returns
\* True with no error shown, a registration when add_student returns True so
MarksAfter(c, shown_ok) ==
    IF ~(shown_ok /\ c.ret.kind = "return" /\ c.ret.v) THEN marks
    ELSE CASE c.pending.kind = "insert_attendance" ->
                  [marks EXCEPT ![c.pending.row.student_id] = @ + 1]
           [] c.pending.kind = "insert_student" ->
                  [marks EXCEPT ![c.pending.row.id] = 0]
           [] OTHER -> marks

\* get_db_cursor after the yield: commit, or rollback and st.error; finally
\* cursor.close() and conn.close(); then the caller's return
get_db_cursor_exit(u, commitOk) ==
    /\ pc[u] = "exit"
    /\ LET c == cur[u]
           eff == IF Commits(c, commitOk) THEN c.pending ELSE NoEffect
       IN  /\ log' = [log EXCEPT ![u] =
                  @ \o (IF c.exc # "" THEN <<"conn.rollback", "st.error">>
                        ELSE IF commitOk THEN <<"conn.commit">>
                        ELSE <<"conn.commit", "conn.rollback", "st.error">>)
                    \o <<"cursor.close", "conn.close">>]
           /\ outcome' = [outcome EXCEPT ![u] =
                  IF Commits(c, commitOk) THEN "committed" ELSE "rolledback"]
           /\ tables' = TablesAfter(eff)
           /\ students' = StudentsAfter(eff)
           /\ attendance' = AttendanceAfter(eff)
           /\ marks' = MarksAfter(c, c.exc = "" /\ commitOk)
           /\ ret' = [ret EXCEPT ![u] = IF c.exc = "" THEN c.ret ELSE AfterWith(call[u])]
    /\ pc' = [pc EXCEPT ![u] = "done"]
    /\ UNCHANGED <<seq, today, call, cur>>

----------------------------------------------------------------------------
(* The repository functions *)

init_database(u, f) ==
    /\ get_db_cursor_enter(u, [op |-> "init_database"], f,
              Propagate(Exec(CreateTables, f), RetVal(FALSE, None, {})))
    /\ UNCHANGED seq

\* SELECT id, name, department FROM students
SelectStudents ==
    IF "students" \notin tables THEN StmtRaise("UndefinedTable")
    ELSE StmtOk(Cardinality(students), students, NoEffect)

load_students(u, f) ==
    /\ LET r == Exec(SelectStudents, f)
          IN get_db_cursor_enter(u, [op |-> "load_students"], f,
                 Propagate(r, RetVal(TRUE, "", r.rows)))
    /\ UNCHANGED seq

\* (mutant) add_student without its except psycopg2.errors.UniqueViolation
add_student_body_generic(s) ==
    [err |-> s.err, rowcount |-> s.rowcount, rows |-> s.rows, pending |-> s.pending,
     exc |-> "",
     ret |-> IF s.err = "" THEN RetVal(TRUE, "Student added successfully!", {})
             ELSE RetVal(FALSE, "Error: " \o s.err, {})]

\* the body of add_student: both except clauses return inside the with
add_student_body(s) ==
    [err |-> s.err, rowcount |-> s.rowcount, rows |-> s.rows, pending |-> s.pending,
     exc |-> "",
     ret |-> IF s.err = "" THEN RetVal(TRUE, "Student added successfully!", {})
             ELSE IF s.err = "UniqueViolation"
             THEN RetVal(FALSE, "Student ID already exists!", {})
             ELSE RetVal(FALSE, "Error: " \o s.err, {})]

add_student(u, student_id, name, department, f) ==
    /\ get_db_cursor_enter(u,
              [op |-> "add_student", student_id |-> student_id, name |-> name,
               department |-> department],
              f,
              add_student_body(Exec(InsertStudent(student_id, name, department), f)))
    /\ UNCHANGED seq

delete_student(u, student_id, f) ==
    /\ get_db_cursor_enter(u, [op |-> "delete_student", student_id |-> student_id],
              f,
              Propagate(Exec(DeleteStudent(student_id), f), RetVal(TRUE, "", {})))
    /\ UNCHANGED seq

\* (mutant) load_attendance with elif in place of its second and third if
load_attendance_params_elif(date_filter, student_filter, status_filter) ==
    IF TruthyDate(date_filter) THEN << <<"date", date_filter>> >>
    ELSE IF Truthy(student_filter) /\ student_filter # All
    THEN << <<"student_id", student_filter>> >>
    ELSE IF Truthy(status_filter) /\ status_filter # All
    THEN << <<"status", status_filter>> >>
    ELSE <<>>

\* the WHERE clause load_attendance builds: one <<column, value>> per
\* filter that is truthy and, for student and status, is not "All"
load_attendance_params(date_filter, student_filter, status_filter) ==
    (IF TruthyDate(date_filter) THEN << <<"date", date_filter>> >> ELSE <<>>)
    \o (IF Truthy(student_filter) /\ student_filter # All
        THEN << <<"student_id", student_filter>> >> ELSE <<>>)
    \o (IF Truthy(status_filter) /\ status_filter # All
        THEN << <<"status", status_filter>> >> ELSE <<>>)

\* SELECT ... FROM attendance WHERE 1=1 AND col = %s ...
SelectAttendance(params) ==
    IF "attendance" \notin tables THEN StmtRaise("UndefinedTable")
    ELSE LET rows == {r \in attendance :
                        \A i \in 1..Len(params) : r[params[i][1]] = params[i][2]}
         IN StmtOk(Cardinality(rows), rows, NoEffect)

load_attendance(u, date_filter, student_filter, status_filter, f) ==
    /\ LET r == Exec(SelectAttendance(
                       load_attendance_params(date_filter, student_filter, status_filter)),
                       f)
          IN get_db_cursor_enter(u,
                 [op |-> "load_attendance", date_filter |-> date_filter,
                  student_filter |-> student_filter, status_filter |-> status_filter],
                 f, Propagate(r, RetVal(TRUE, "", r.rows)))
    /\ UNCHANGED seq

save_attendance(u, student_id, student_name, status, f) ==
    /\    /\ get_db_cursor_enter(u,
                 [op |-> "save_attendance", student_id |-> student_id,
                  student_name |-> student_name, status |-> status],
                 f,
                 Propagate(Exec(InsertAttendance(student_id, student_name, today, status),
                                f),
                           RetVal(TRUE, "", {})))
          \* nextval of the SERIAL is taken when the row is built, and is not
          \* given back when the statement or the transaction fails
          /\ seq' = IF f = "none" /\ "attendance" \in tables
                    THEN seq + 1 ELSE seq

get_today_attendance(u, f) ==
    /\ LET r == Exec(SelectAttendance(<< <<"date", today>> >>), f)
          IN get_db_cursor_enter(u, [op |-> "get_today_attendance"], f,
                 Propagate(r, RetVal(TRUE, "", r.rows)))
    /\ UNCHANGED seq

\* dict(cursor.fetchall()) of SELECT status, COUNT(*) ... GROUP BY status
CountByStatus(rows) ==
    [s \in {r.status : r \in rows} |-> Cardinality({r \in rows : r.status = s})]

\* d.get(key, 0)
Get(d, key) == IF key \in DOMAIN d THEN d[key] ELSE 0

\* sum(d.values())
SumValues(d) ==
    LET RECURSIVE S(_)
        S(K) == IF K = {} THEN 0
                ELSE LET k == CHOOSE x \in K : TRUE IN d[k] + S(K \ {k})
    IN S(DOMAIN d)

\* present / total * 100 if total > 0 else 0, as the fraction <<numerator, denominator>>
Rate(present, total) == IF total > 0 THEN <<present * 100, total>> ELSE <<0, 1>>

\* Reports page: the metrics shown for one student's report
StudentSummary(student_stats) ==
    LET total == SumValues(student_stats)
        present == Get(student_stats, "Present")
    IN [total |-> total, present |-> present,
        absent |-> Get(student_stats, "Absent"),
        late |-> Get(student_stats, "Late"),
        rate |-> Rate(present, total)]

get_attendance_stats(u, f) ==
    /\ LET s == IF "attendance" \notin tables THEN StmtRaise("UndefinedTable")
                   ELSE StmtOk(1, {}, NoEffect)
              status_counts == CountByStatus(attendance)
              today_counts == CountByStatus({r \in attendance : r.date = today})
              stats == [total |-> Cardinality(attendance),
                        present |-> Get(status_counts, "Present"),
                        absent |-> Get(status_counts, "Absent"),
                        late |-> Get(status_counts, "Late"),
                        today_present |-> Get(today_counts, "Present"),
                        today_absent |-> Get(today_counts, "Absent"),
                        today_late |-> Get(today_counts, "Late")]
          IN get_db_cursor_enter(u, [op |-> "get_attendance_stats"], f,
                 Propagate(Exec(s, f), RetVal(TRUE, "", stats)))
    /\ UNCHANGED seq

get_student_report(u, student_id, f) ==
    /\ LET s == IF "attendance" \notin tables THEN StmtRaise("UndefinedTable")
                   ELSE StmtOk(1, {}, NoEffect)
              report == CountByStatus({r \in attendance : r.student_id = student_id})
          IN get_db_cursor_enter(u, [op |-> "get_student_report", student_id |-> student_id],
                 f, Propagate(Exec(s, f), RetVal(TRUE, "", report)))
    /\ UNCHANGED seq

\* date.today() moves on
NextDay ==
    /\ today < MaxDay
    /\ today' = today + 1
    /\ UNCHANGED <<tables, students, attendance, seq, pc, call, cur, log, outcome, ret, marks>>
    /\ UNCHANGED ui

----------------------------------------------------------------------------
NoRun == [page |-> "none"]

(* The repository layer under one caller: the writes and the per-student   *)
(* report, every call with every failure                                   *)

Init ==
    /\ tables = {}
    /\ students = {}
    /\ attendance = {}
    /\ seq = 1
    /\ today = 1
    /\ pc = [u \in Users |-> "idle"]
    /\ call = [u \in Users |-> [op |-> "none"]]
    /\ cur = [u \in Users |-> NoCursor]
    /\ log = [u \in Users |-> <<>>]
    /\ outcome = [u \in Users |-> "none"]
    /\ ret = [u \in Users |-> NoRet]
    /\ marks = [i \in AllIds |-> 0]
    /\ run = [u \in Users |-> NoRun]
    /\ students_df = [u \in Users |-> {}]

Next ==
    \/ \E u \in Callers, f \in Failures : init_database(u, f) /\ UNCHANGED ui
    \/ \E u \in Callers, i \in ArgIds, r \in Registrations, f \in Failures :
          add_student(u, i, r[1], r[2], f) /\ UNCHANGED ui
    \/ \E u \in Callers, i \in ArgIds, f \in Failures : delete_student(u, i, f) /\ UNCHANGED ui
    \/ \E u \in Callers, i \in ArgIds, n \in MarkNames, s \in ArgStatuses, f \in Failures :
          seq <= MaxSerial /\ save_attendance(u, i, n, s, f) /\ UNCHANGED ui
    \/ \E u \in Callers, i \in ArgIds, f \in Failures : get_student_report(u, i, f) /\ UNCHANGED ui
    \/ \E u \in Callers, commitOk \in BOOLEAN : get_db_cursor_exit(u, commitOk) /\ UNCHANGED ui

Spec == Init /\ [][Next]_vars

(* The repository layer under one caller: the queries, over a store that   *)
(* holds two registered students and is filled by marks on successive days *)

InitQuery ==
    /\ tables = AllTables
    /\ students = {[id |-> i, name |-> "n", department |-> "Other"] : i \in ArgIds}
    /\ attendance = {}
    /\ seq = 1
    /\ today = 1
    /\ pc = [u \in Users |-> "idle"]
    /\ call = [u \in Users |-> [op |-> "none"]]
    /\ cur = [u \in Users |-> NoCursor]
    /\ log = [u \in Users |-> <<>>]
    /\ outcome = [u \in Users |-> "none"]
    /\ ret = [u \in Users |-> NoRet]
    /\ marks = [i \in AllIds |-> 0]
    /\ run = [u \in Users |-> NoRun]
    /\ students_df = [u \in Users |-> {}]

NextQuery ==
    \/ \E u \in Callers, i \in ArgIds, s \in Statuses \ {"Late"} :
          seq <= MaxQuerySerial /\ save_attendance(u, i, "n", s, "none") /\ UNCHANGED ui
    \/ \E u \in Callers, f \in Failures : load_students(u, f) /\ UNCHANGED ui
    \/ \E u \in Callers, df \in DateFilters, sf \in StudentFilters, tf \in StatusFilters,
          f \in {"none", "connect"} : load_attendance(u, df, sf, tf, f) /\ UNCHANGED ui
    \/ \E u \in Callers, f \in Failures : get_today_attendance(u, f) /\ UNCHANGED ui
    \/ \E u \in Callers, f \in Failures : get_attendance_stats(u, f) /\ UNCHANGED ui
    \/ \E u \in Callers : get_db_cursor_exit(u, TRUE) /\ UNCHANGED ui
    \/ NextDay

SpecQuery == InitQuery /\ [][NextQuery]_vars

----------------------------------------------------------------------------
(* What a caller can observe of a completed call *)

Count(q, e) == Cardinality({i \in 1..Len(q) : q[i] = e})

Done(u, op) == pc[u] = "done" /\ call[u].op = op

\* the call returned and no error was shown to the user (st.error)
Clean(u) == ret[u].kind = "return" /\ Count(log[u], "st.error") = 0

\* a write that returned True with no error shown
Succeeded(u, op) == Done(u, op) /\ Clean(u) /\ ret[u].v

\* the step in which user u's call of op returns from its with block
Returns(u, op) == pc[u] = "exit" /\ pc'[u] = "done" /\ call[u].op = op

HasStudent(id) == \E s \in students : s.id = id
RowsOf(id) == {r \in attendance : r.student_id = id}

----------------------------------------------------------------------------
(* The script: every interaction of a user runs app.py from the top, which *)
(* calls init_database and then the code of the page the user is on. Each  *)
(* user's run is its own control flow over the one store.                  *)

\* the call before this point of the script returned (did not raise)
Returned(u) == pc[u] = "done" /\ ret[u].kind = "return"

At(u, page, step) == run[u].page = page /\ run[u].step = step /\ Returned(u)

Step(u, step) == run' = [run EXCEPT ![u].step = step]

Ids(df) == {s.id : s \in df}

\* students_df[students_df['ID'] == x]['Name'].values[0]
NameOf(df, x) == (CHOOSE s \in df : s.id = x).name

\* line 224, at the start of a run on page
script_start(u, page, f) ==
    /\ run[u] = NoRun
    /\ init_database(u, f)
    /\ run' = [run EXCEPT ![u] = [page |-> page, step |-> "init"]]
    /\ UNCHANGED students_df

\* Add Student page, the form submitted: lines 360-369
add_student_form(u, student_id, name, department, f) ==
    /\ At(u, "add_student_form", "init")
    /\ IF Len(student_id) > 0 /\ Len(name) > 0
       THEN add_student(u, Str(strip(student_id)), Str(strip(name)), department, f)
       ELSE \* st.warning: no call
            UNCHANGED <<tables, students, attendance, seq, today, pc, call, cur, log,
                        outcome, ret, marks>>
    /\ Step(u, "form")
    /\ UNCHANGED students_df

\* Add Student page: students_df = load_students(), line 373
registered_students(u, f) ==
    /\ \/ At(u, "add_student_form", "form")
       \/ At(u, "delete_button", "init")
    /\ load_students(u, f)
    /\ Step(u, "load")
    /\ UNCHANGED students_df

\* Add Student page, Delete Student pressed: lines 382-395
delete_button(u, student_to_delete, f) ==
    /\ At(u, "delete_button", "load")
    /\ student_to_delete \in Ids(ret[u].data)
    /\ students_df' = [students_df EXCEPT ![u] = ret[u].data]
    /\ delete_student(u, student_to_delete, f)
    /\ Step(u, "delete")

\* Mark Attendance page: students_df = load_students(), line 403
mark_attendance_students(u, f) ==
    /\ At(u, "individual_attendance", "init")
    /\ load_students(u, f)
    /\ Step(u, "load")
    /\ UNCHANGED students_df

\* Mark Attendance page, the individual form submitted: lines 417-439
individual_attendance(u, selected_student, status, f) ==
    /\ At(u, "individual_attendance", "load")
    /\ selected_student \in Ids(ret[u].data)
    /\ students_df' = [students_df EXCEPT ![u] = ret[u].data]
    /\ save_attendance(u, selected_student, NameOf(ret[u].data, selected_student), status, f)
    /\ Step(u, "save")

\* the run is over: the page's code has run to its end, or a call raised
\* and Streamlit stopped the script
script_end(u) ==
    /\ run[u] # NoRun
    /\ pc[u] = "done"
    /\ \/ ret[u].kind = "raise"
       \/ run[u].step \in {"delete", "save"}
       \/ run[u].page = "add_student_form" /\ run[u].step = "load"
       \/ run[u].step = "load" /\ ret[u].data = {}
    /\ run' = [run EXCEPT ![u] = NoRun]
    /\ students_df' = [students_df EXCEPT ![u] = {}]
    /\ pc' = [pc EXCEPT ![u] = "idle"]
    /\ call' = [call EXCEPT ![u] = [op |-> "none"]]
    /\ cur' = [cur EXCEPT ![u] = NoCursor]
    /\ log' = [log EXCEPT ![u] = <<>>]
    /\ outcome' = [outcome EXCEPT ![u] = "none"]
    /\ ret' = [ret EXCEPT ![u] = NoRet]
    /\ UNCHANGED <<tables, students, attendance, seq, today, marks>>

Pages == {"add_student_form", "delete_button", "individual_attendance"}

NextApp ==
    \/ \E u \in Users, page \in Pages, f \in Failures : script_start(u, page, f)
    \/ \E u \in Users, i \in TypedIds, n \in TypedNames, d \in FormDepartments :
          add_student_form(u, i, n, d, "none")
    \/ \E u \in Users : registered_students(u, "none")
    \/ \E u \in Users, i \in AllIds : delete_button(u, i, "none")
    \/ \E u \in Users : mark_attendance_students(u, "none")
    \/ \E u \in Users, i \in AllIds, s \in FormStatuses :
          seq <= MaxAppSerial /\ individual_attendance(u, i, s, "none")
    \/ \E u \in Users : get_db_cursor_exit(u, TRUE) /\ UNCHANGED ui
    \/ \E u \in Users : script_end(u)

SpecApp == Init /\ [][NextApp]_vars

----------------------------------------------------------------------------
C2_DeleteReturnsWhetherRemoved ==
    \A u \in Users :
        (Done(u, "delete_student") /\ ret[u].kind = "return" /\ ret[u].v)
        => cur[u].rowcount > 0

C2_AbsentIdChangesNothing ==
    [][\A u \in Users :
          (Returns(u, "delete_student") /\ ~HasStudent(call[u].student_id))
          => students' = students /\ attendance' = attendance
      ]_vars

(* C3: add_student of an id already in students fails with the duplicate-id *)
(* outcome, which no other failure produces; the existing row and all other *)
(* rows stay as they were; no two students rows share an id.                *)
DuplicateId == RetVal(FALSE, "Student ID already exists!", {})
OtherFailures ==
    {RetVal(FALSE, "Database connection failed", {}),
     RetVal(FALSE, "Error: OperationalError", {}),
     RetVal(FALSE, "Error: UndefinedTable", {})}

\* the step in which user u's call of op ends: it returns from its with
\* block, or it got no connection or no cursor and ends where it began
Completes(u, op) ==
    /\ pc'[u] = "done" /\ call'[u].op = op
    /\ \/ pc[u] = "exit"
       \/ pc[u] # "exit" /\ Count(log'[u], "conn.cursor") = 0

C3_DuplicateIdIsRejectedDistinctly ==
    [][/\ \A u \in Users :
            Completes(u, "add_student")
            => LET id == call'[u].student_id IN
               /\ HasStudent(id)
                    => /\ students' = students /\ attendance' = attendance
                       /\ ret'[u] \in {DuplicateId, Raised("UnboundLocalError")}
                                         \cup OtherFailures
                       /\ (pc[u] = "exit" /\ cur[u].err # "OperationalError")
                             => ret'[u] = DuplicateId
               /\ ret'[u] = DuplicateId => HasStudent(id)
               /\ DuplicateId \notin OtherFailures
       /\ (\A s, t \in students : s.id = t.id => s = t)'
      ]_vars

\* a second registration of a registered id, with another name and department
C3_Witness ==
    \E u \in Users :
        /\ Done(u, "add_student")
        /\ ret[u] = DuplicateId
        /\ \E s \in students : /\ s.id = call[u].student_id
                               /\ s.name # call[u].name
                               /\ s.department # call[u].department

(* C5: save_attendance rejects a status outside {Present, Absent, Late}    *)
(* before any statement reaches the store, so every attendance row has one *)
(* of the three.                                                           *)
C5_StatusIsEnumerated ==
    /\ \A r \in attendance : r.status \in Statuses
    /\ \A u \in Users :
          (pc[u] = "exit" /\ call[u].op = "save_attendance"
             /\ call[u].status \notin Statuses)
          => cur[u].pending = NoEffect

(* C7: whenever get_connection returned a connection, the call's           *)
(* transaction is committed only if no statement raised and is rolled back *)
(* otherwise, and then the connection is closed exactly once.              *)
C7_CommitOrRollbackThenCloseOnce ==
    \A u \in Users :
        (pc[u] = "done" /\ Count(log[u], "connect") = 1)
        => /\ outcome[u] \in {"committed", "rolledback"}
           /\ outcome[u] = "committed" => cur[u].err = ""
           /\ Count(log[u], "conn.close") = 1
           /\ log[u][Len(log[u])] = "conn.close"

(* C9: a successful save_attendance adds exactly one row and touches no    *)
(* other, also when the student already has a row for that date; the       *)
(* report of a student counts its rows by status, its total is the number  *)
(* of successful marks since the student was registered, and after Present *)
(* then Absent it is {Present: 1, Absent: 1}, total 2, rate 50.            *)
C9_EachMarkAddsOneRow ==
    [][/\ \A u \in Users :
            (Returns(u, "save_attendance") /\ Succeeded(u, "save_attendance")')
            => \E r \in attendance' \ attendance :
                  /\ attendance' = attendance \cup {r}
                  /\ r.student_id = call[u].student_id
                  /\ r.student_name = call[u].student_name
                  /\ r.status = call[u].status
                  /\ r.date = today
                  /\ students' = students
       /\ \A u \in Users :
            (Returns(u, "get_student_report") /\ Clean(u)')
            => LET d == ret'[u].data
                   id == call[u].student_id
                   summary == StudentSummary(d)
               IN /\ DOMAIN d = {r.status : r \in RowsOf(id)}
                  /\ \A k \in DOMAIN d :
                        d[k] = Cardinality({r \in RowsOf(id) : r.status = k})
                  /\ HasStudent(id) => summary.total = marks[id]
                  /\ d = [k \in {"Present", "Absent"} |-> 1]
                        => /\ summary.total = 2
                           /\ summary.present = 1 /\ summary.absent = 1
                           /\ summary.rate[1] = 50 * summary.rate[2]
      ]_vars

\* the report after Present then Absent for one student on one day
C9_Witness ==
    \E u \in Users :
        /\ Done(u, "get_student_report") /\ Clean(u)
        /\ ret[u].data = [k \in {"Present", "Absent"} |-> 1]
        /\ \E r, q \in RowsOf(call[u].student_id) :
              r.id < q.id /\ r.date = q.date /\ r.status = "Present" /\ q.status = "Absent"

(* C4: load_attendance returns exactly the rows that meet every supplied   *)
(* filter at once; a filter that is absent (None or empty) or "All" does   *)
(* not constrain its column; no match gives an empty result, not an error. *)
Supplied(x) == x \notin {None, "", All}

Matching(date_filter, student_filter, status_filter) ==
    {r \in attendance :
        /\ date_filter # NoDate => r.date = date_filter
        /\ Supplied(student_filter) => r.student_id = student_filter
        /\ Supplied(status_filter) => r.status = status_filter}

C4_FiltersIntersect ==
    \A u \in Users :
        Done(u, "load_attendance")
        => /\ Clean(u) => ret[u].data = Matching(call[u].date_filter,
                                                 call[u].student_filter,
                                                 call[u].status_filter)
           /\ Count(log[u], "conn.cursor") = 1 => Clean(u)

\* a date and a student filter that each keep a row the other drops
C4_Witness ==
    \E u \in Users :
        /\ Done(u, "load_attendance") /\ Clean(u)
        /\ call[u].date_filter # NoDate /\ Supplied(call[u].student_filter)
        /\ ret[u].data # {}
        /\ \E r \in attendance : /\ r.date = call[u].date_filter
                                 /\ r.student_id # call[u].student_filter
        /\ \E r \in attendance : /\ r.date # call[u].date_filter
                                 /\ r.student_id = call[u].student_filter

\* no row matches: an empty result and no error
C4_WitnessEmpty ==
    \E u \in Users :
        /\ Done(u, "load_attendance") /\ Clean(u)
        /\ attendance # {} /\ ret[u].data = {}

(* C6: under every interleaving of the users' registrations, deletions and *)
(* marks, every attendance row in the store belongs to a student in the    *)
(* store: a mark for a student deleted since the marker loaded the list is *)
(* refused, and a delete takes the student's rows with it in one step.     *)
C6_NoOrphanAttendance ==
    \A r \in attendance : HasStudent(r.student_id)

\* a mark refused because another user deleted the student after the
\* marker's page had listed it
C6_Witness ==
    \E u \in Users :
        /\ Done(u, "save_attendance")
        /\ cur[u].err = "ForeignKeyViolation"
        /\ call[u].student_id \in Ids(students_df[u])

(* C8: init_database runs before any repository call of the run, and when  *)
(* it fails no repository call of that run reaches the store.              *)
C8_NoCallAfterFailedInit ==
    [][\A u \in Users :
          (run[u] # NoRun /\ run[u].step = "init" /\ pc[u] = "done" /\ ~Clean(u))
          => ~(call'[u].op \notin {"none", "init_database"}
                 /\ pc'[u] = "exit" /\ cur'[u].err = "")
      ]_vars

(* C10: every students row has a non-empty id and a non-empty name: what   *)
(* the registration form passes on is trimmed, and a registration whose    *)
(* trimmed id or name is empty inserts nothing.                            *)
C10_IdAndNameNonEmpty ==
    \A s \in students : s.id # "" /\ s.name # ""

(* C11: every attendance row is inserted with the name its student has in  *)
(* the students table at that moment, whatever the other users do between  *)
(* the marker's load of the student list and the submit of the form (a     *)
(* delete and a registration of the same id under another name included).  *)
C11_NameIsSnapshotAtInsert ==
    [][\A r \in attendance' \ attendance :
           \E s \in students' : s.id = r.student_id /\ s.name = r.student_name
      ]_vars

\* the repository functions that write
Writes == {"add_student", "delete_student", "save_attendance"}

(* C12: a write that has returned success (True, or (True, message)) had   *)
(* its transaction committed, showed no error, and left its effect in the  *)
(* store for the calls that follow: the student is there after            *)
(* add_student, gone after delete_student, the row is there after          *)
(* save_attendance. A call whose commit fails or whose transaction is      *)
(* rolled back never returns success.                                      *)
C12_SuccessMeansCommitted ==
    \A u \in Users :
        (pc[u] = "done" /\ call[u].op \in Writes /\ ret[u].kind = "return" /\ ret[u].v)
        => /\ outcome[u] = "committed"
           /\ Clean(u)
           /\ call[u].op = "add_student" => HasStudent(call[u].student_id)
           /\ call[u].op = "delete_student" => ~HasStudent(call[u].student_id)
           /\ call[u].op = "save_attendance"
                 => \E r \in attendance : /\ r.student_id = call[u].student_id
                                          /\ r.student_name = call[u].student_name
                                          /\ r.status = call[u].status

====
